---- MODULE Spec2Model ----
(***************************************************************************)
(* Session lifecycle controller of the voice-call front end (App.tsx):     *)
(* the React state of the component, the two refs (callRef, audioRef),     *)
(* the Daily call objects created by connect(), the HTMLAudioElement       *)
(* sinks created by the track-started handler, and the suspended async     *)
(* invocations of connect() and disconnect().                              *)
(*                                                                         *)
(* Every action is one turn of the JavaScript event loop: a user intent,   *)
(* a transport callback, or the continuation of an async function after    *)
(* an await.                                                               *)
(***************************************************************************)
EXTENDS Integers, Sequences, FiniteSets, TLC

\* ------------------------------------------------------------------ bounds
\* connect() invocations that pass the guard (each issues one provisioning call)
MaxAttempts == 2
\* HTMLAudioElement objects that exist at the same time
MaxSinks == 2
\* disconnect() invocations suspended at an await at the same time
MaxDisconnects == 1
\* connect() invocations that pass the guard, in the audio specification
MaxAudioAttempts == 1
\* connect() invocations that pass the guard, in the teardown specification
MaxTeardownAttempts == 1
\* connect() invocations that pass the guard, in the mute specification
MaxMuteAttempts == 2
\* connect() invocations that pass the guard, in the decoder specification
MaxDecoderAttempts == 1
\* connect() invocations that pass the guard, in the selection specification
MaxSelectAttempts == 2
\* connect() invocations that pass the guard, in the progress specification
MaxLiveAttempts == 2

\* ------------------------------------------------------------------ values
undefined == "undefined"

CHARACTERS == {"bugs", "lola", "daffy"}

ConnectionStates == {"idle", "connecting", "connected", "error"}
AgentStates == {"listening", "thinking", "speaking", "idle"}

\* JavaScript truthiness of an optional string field
Truthy(v) == v # undefined /\ v # ""

\* An 'app-message' event: hasData is the truthiness of event.data, the other
\* fields are those of event.data (undefined when the key is missing).
Msg(d, ty, st, tx, ro) ==
    [hasData |-> d, type |-> ty, status |-> st, text |-> tx, role |-> ro]

StatusMsg(st) == Msg(TRUE, "status", st, undefined, undefined)
TranscriptMsg(tx, ro) == Msg(TRUE, "transcript", undefined, tx, ro)

\* Messages the lifecycle specification delivers
LifecycleMessages ==
    { StatusMsg("tts"), TranscriptMsg("hello", "user") }

\* Messages the decoder specification delivers: status messages with every
\* kind of status, transcript messages with every kind of text and role,
\* each also carrying the other type's field, messages of another or no
\* type, and a message without data.
DecoderStatuses == {"listening", "stt", "llm", "tts", "unknown_value", undefined}
DecoderTexts == {"hello", "bye", "", undefined}
DecoderRoles == {"user", "assistant", undefined}

DecoderMessages ==
    { Msg(TRUE, "status", st, tx, undefined) :
        st \in DecoderStatuses, tx \in {"bye", undefined} }
    \cup { Msg(TRUE, "transcript", st, tx, ro) :
        st \in {"tts", undefined}, tx \in DecoderTexts, ro \in DecoderRoles }
    \cup { Msg(TRUE, ty, "tts", "bye", "user") : ty \in {"other", undefined} }
    \cup { Msg(FALSE, undefined, undefined, undefined, undefined) }

\* A 'track-started' event: the track's kind, whether a participant is
\* attached, whether it is the local participant, and the track itself.
Tracks == {"trackA", "trackB"}

TrackEvents ==
    [kind : {"audio", "video"}, hasParticipant : BOOLEAN, local : BOOLEAN,
     track : Tracks]

\* Track events the lifecycle specification delivers: a remote audio track
LifecycleTracks ==
    { [kind |-> "audio", hasParticipant |-> TRUE, local |-> FALSE, track |-> "trackA"] }

\* Track events the audio specification delivers
AudioTracks ==
    { e \in TrackEvents : e.kind = "audio" \/ (e.track = "trackA" /\ e.hasParticipant) }

VARIABLES
    connectionState,    \* useState<ConnectionState>('idle')
    agentState,         \* useState<AgentState>('idle')
    isMuted,            \* useState(false)
    transcript,         \* useState<string>('')
    transcriptRole,     \* useState<string>('')
    selectedCharacter,  \* useState<string>('bugs')
    callRef,            \* useRef<DailyCall | null>: index into calls, 0 = null
    audioRef,           \* useRef<HTMLAudioElement | null>: index into sinks, 0 = null
    provisioned,        \* the number of provisioning calls issued so far
    attempts,           \* the connect() invocations suspended at an await
    calls,              \* the call objects made by Daily.createCallObject
    sinks,              \* the Audio elements made by new Audio(), by heap slot
    disconnects,        \* the disconnect() invocations suspended at an await
    mounted,            \* the component is mounted (its cleanup has not run)
    lastEvent           \* the turn that produced this state (history)

react == <<connectionState, agentState, isMuted, transcript, transcriptRole,
           selectedCharacter>>
vars == <<connectionState, agentState, isMuted, transcript, transcriptRole,
          selectedCharacter, callRef, audioRef, provisioned, attempts, calls,
          sinks, disconnects, mounted, lastEvent>>

Ev(op, c, t) == [op |-> op, call |-> c, track |-> t]

\* A state setter of an unmounted component changes nothing.
Set(old, new) == IF mounted THEN new ELSE old

\* ------------------------------------------------------------ call objects
\* meeting: the call object's meeting state ("joining" from join(), "joined",
\* "ended" once it left or failed); destroyReq: destroy() was called;
\* localAudio: the transport's local-audio-enabled flag; stopRequested
\* (history): the user asked to stop while the attempt that made the object
\* awaited provisioning; character (history): the character id the attempt
\* sent to provisioning for the room the object joins.
NewCall ==
    [meeting |-> "ended", destroyReq |-> FALSE, localAudio |-> TRUE,
     stopRequested |-> FALSE, character |-> "bugs"]

InMeeting(c) == calls[c].meeting \in {"joining", "joined"}

\* destroy() leaves the meeting first: the object is gone once it is out of it.
Destroyed(c) == calls[c].destroyReq /\ ~InMeeting(c)

\* leave(): the promise resolves once the object is out of the meeting.
LeaveResolved(c) == ~InMeeting(c)

\* destroy()
CallDestroy(cs, c) == [cs EXCEPT ![c].destroyReq = TRUE]

\* ------------------------------------------------------------------- sinks
\* pause(); srcObject = null
StopSink(ss, s) == [ss EXCEPT ![s] = [srcObject |-> "null", paused |-> TRUE]]


DeadSink == [srcObject |-> "null", paused |-> TRUE]

\* A sink is alive while a stream is bound to it or it plays.
AliveIn(ss, s) == ss[s] # DeadSink
Alive(s) == AliveIn(sinks, s)

\* Heap slots the element made by new Audio() can take. The handler assigns
\* it to audioRef.current at once, so a stopped and detached element is
\* garbage from then on, whether or not audioRef.current referred to it.
FreeSlots(ss) == { s \in 1..MaxSinks : ~AliveIn(ss, s) }

Min(S) == CHOOSE x \in S : \A y \in S : x <= y

Init ==
    /\ connectionState = "idle"
    /\ agentState = "idle"
    /\ isMuted = FALSE
    /\ transcript = ""
    /\ transcriptRole = ""
    /\ selectedCharacter = "bugs"
    /\ callRef = 0
    /\ audioRef = 0
    /\ provisioned = 0
    /\ attempts = <<>>
    /\ calls = <<>>
    /\ sinks = [s \in 1..MaxSinks |-> DeadSink]
    /\ disconnects = <<>>
    /\ mounted = TRUE
    /\ lastEvent = Ev("init", 0, "null")

\* The suspended invocations without the i-th, which ended.
RemoveAt(s, i) == [j \in 1..(Len(s) - 1) |-> IF j < i THEN s[j] ELSE s[j + 1]]

\* ---------------------------------------------------------------- connect
\* connect() with a guard that forgets the connecting state.
connect_guardConnectedOnly ==
    /\ mounted
    /\ IF connectionState = "connected"
       THEN /\ lastEvent' = Ev("connect_ignored", 0, "null")
            /\ UNCHANGED <<react, callRef, audioRef, provisioned, attempts,
                           calls, sinks, disconnects, mounted>>
       ELSE /\ provisioned < MaxAttempts
            /\ connectionState' = "connecting"
            /\ provisioned' = provisioned + 1
            /\ attempts' = Append(attempts,
                   [pc |-> "fetch", character |-> selectedCharacter, call |-> 0,
                    stopRequested |-> FALSE])
            /\ lastEvent' = Ev("connect", 0, "null")
            /\ UNCHANGED <<agentState, isMuted, transcript, transcriptRole,
                           selectedCharacter, callRef, audioRef, calls, sinks,
                           disconnects, mounted>>

\* connect(), up to its first await: the guard, setConnectionState and the
\* provisioning request.
connect ==
    /\ mounted
    /\ IF connectionState # "idle" /\ connectionState # "error"
       THEN /\ lastEvent' = Ev("connect_ignored", 0, "null")
            /\ UNCHANGED <<react, callRef, audioRef, provisioned, attempts,
                           calls, sinks, disconnects, mounted>>
       ELSE /\ provisioned < MaxAttempts
            /\ connectionState' = "connecting"
            /\ provisioned' = provisioned + 1
            /\ attempts' = Append(attempts,
                   [pc |-> "fetch", character |-> selectedCharacter, call |-> 0,
                    stopRequested |-> FALSE])
            /\ lastEvent' = Ev("connect", 0, "null")
            /\ UNCHANGED <<agentState, isMuted, transcript, transcriptRole,
                           selectedCharacter, callRef, audioRef, calls, sinks,
                           disconnects, mounted>>

\* connect() creating the call object before it looks at the response.
connectAfterFetch_createFirst(a, ok) ==
    /\ a \in 1..Len(attempts)
    /\ attempts[a].pc = "fetch"
    /\ calls' = Append(calls,
           [NewCall EXCEPT !.meeting = IF ok THEN "joining" ELSE "ended",
                           !.stopRequested = attempts[a].stopRequested,
                           !.character = attempts[a].character])
    /\ callRef' = Len(calls) + 1
    /\ IF ok
       THEN /\ attempts' = [attempts EXCEPT ![a].pc = "join",
                                            ![a].call = Len(calls) + 1]
            /\ lastEvent' = Ev("fetch_ok", Len(calls) + 1, "null")
            /\ UNCHANGED connectionState
       ELSE /\ connectionState' = Set(connectionState, "error")
            /\ attempts' = RemoveAt(attempts, a)
            /\ lastEvent' = Ev("fetch_failed", 0, "null")
    /\ UNCHANGED <<agentState, isMuted, transcript, transcriptRole,
                   selectedCharacter, audioRef, sinks, disconnects, mounted,
                   provisioned>>

\* connect() whose catch block leaves ConnectionState alone when the
\* provisioning call fails.
connectAfterFetch_noCatch(a, ok) ==
    /\ a \in 1..Len(attempts)
    /\ attempts[a].pc = "fetch"
    /\ IF ok
       THEN /\ calls' = Append(calls,
                   [NewCall EXCEPT !.meeting = "joining",
                                   !.stopRequested = attempts[a].stopRequested,
                                   !.character = attempts[a].character])
            /\ callRef' = Len(calls) + 1
            /\ attempts' = [attempts EXCEPT ![a].pc = "join",
                                            ![a].call = Len(calls) + 1]
            /\ lastEvent' = Ev("fetch_ok", Len(calls) + 1, "null")
            /\ UNCHANGED <<react, audioRef, sinks, disconnects, mounted, provisioned>>
       ELSE /\ attempts' = RemoveAt(attempts, a)
            /\ lastEvent' = Ev("fetch_failed", 0, "null")
            /\ UNCHANGED <<react, callRef, audioRef, calls, sinks,
                           disconnects, mounted, provisioned>>

\* connect(), resumed after the provisioning call: on failure (rejection or
\* !response.ok) the catch block; on success createCallObject, callRef, the
\* handlers, and join().
connectAfterFetch(a, ok) ==
    /\ a \in 1..Len(attempts)
    /\ attempts[a].pc = "fetch"
    /\ IF ok
       THEN /\ calls' = Append(calls,
                   [NewCall EXCEPT !.meeting = "joining",
                                   !.stopRequested = attempts[a].stopRequested,
                                   !.character = attempts[a].character])
            /\ callRef' = Len(calls) + 1
            /\ attempts' = [attempts EXCEPT ![a].pc = "join",
                                            ![a].call = Len(calls) + 1]
            /\ lastEvent' = Ev("fetch_ok", Len(calls) + 1, "null")
            /\ UNCHANGED <<react, audioRef, sinks, disconnects, mounted, provisioned>>
       ELSE /\ connectionState' = Set(connectionState, "error")
            /\ attempts' = RemoveAt(attempts, a)
            /\ lastEvent' = Ev("fetch_failed", 0, "null")
            /\ UNCHANGED <<agentState, isMuted, transcript, transcriptRole,
                           selectedCharacter, callRef, audioRef, calls, sinks,
                           disconnects, mounted, provisioned>>

\* connect(), resumed after join() rejected: the catch block.
connectCatchJoin(a) ==
    /\ a \in 1..Len(attempts)
    /\ attempts[a].pc = "joinRejected"
    /\ connectionState' = Set(connectionState, "error")
    /\ attempts' = RemoveAt(attempts, a)
    /\ lastEvent' = Ev("join_rejected", attempts[a].call, "null")
    /\ UNCHANGED <<agentState, isMuted, transcript, transcriptRole,
                   selectedCharacter, callRef, audioRef, calls, sinks,
                   disconnects, mounted, provisioned>>

\* The pending join() of call object c resolves (nothing follows it in
\* connect) or never settles: the invocation is over.
ResolveJoin(as, c) == SelectSeq(as, LAMBDA r : ~(r.call = c /\ r.pc = "join"))

\* The pending join() of call object c rejects: the catch block is to run.
RejectJoin(as, c) ==
    [a \in 1..Len(as) |->
        IF as[a].call = c /\ as[a].pc = "join"
        THEN [as[a] EXCEPT !.pc = "joinRejected"]
        ELSE as[a]]

\* ------------------------------------------------------ transport handlers
\* callObject.on('joined-meeting')
OnJoinedMeeting(c) ==
    /\ c \in 1..Len(calls)
    /\ calls[c].meeting = "joining"
    /\ calls' = [calls EXCEPT ![c].meeting = "joined"]
    /\ attempts' = ResolveJoin(attempts, c)
    /\ connectionState' = Set(connectionState, "connected")
    /\ agentState' = Set(agentState, "idle")
    /\ lastEvent' = Ev("joined", c, "null")
    /\ UNCHANGED <<isMuted, transcript, transcriptRole, selectedCharacter,
                   callRef, audioRef, sinks, disconnects, mounted, provisioned>>

\* callObject.on('left-meeting')
OnLeftMeeting(c) ==
    /\ c \in 1..Len(calls)
    /\ InMeeting(c)
    /\ calls' = [calls EXCEPT ![c].meeting = "ended"]
    /\ attempts' = ResolveJoin(attempts, c)
    /\ connectionState' = Set(connectionState, "idle")
    /\ agentState' = Set(agentState, "idle")
    /\ transcript' = Set(transcript, "")
    /\ transcriptRole' = Set(transcriptRole, "")
    /\ lastEvent' = Ev("left", c, "null")
    /\ UNCHANGED <<isMuted, selectedCharacter, callRef, audioRef, sinks,
                   disconnects, mounted, provisioned>>

\* callObject.on('error'): a fatal transport error ends the meeting; a
\* pending join() rejects.
OnError(c) ==
    /\ c \in 1..Len(calls)
    /\ InMeeting(c)
    /\ calls' = [calls EXCEPT ![c].meeting = "ended"]
    /\ attempts' = RejectJoin(attempts, c)
    /\ connectionState' = Set(connectionState, "error")
    /\ lastEvent' = Ev("error", c, "null")
    /\ UNCHANGED <<agentState, isMuted, transcript, transcriptRole,
                   selectedCharacter, callRef, audioRef, sinks, disconnects,
                   mounted, provisioned>>

\* The track-started handler without the clean-up of the previous element.
OnTrackStarted_noCleanup(c, e, playOk) ==
    /\ c \in 1..Len(calls)
    /\ calls[c].meeting = "joined"
    /\ IF e.kind = "audio" /\ e.hasParticipant /\ ~e.local
       THEN LET free == FreeSlots(sinks)
            IN /\ free # {}
               /\ sinks' = [sinks EXCEPT ![Min(free)] =
                                [srcObject |-> e.track, paused |-> ~playOk]]
               /\ audioRef' = Min(free)
               /\ lastEvent' = Ev(IF audioRef # 0 THEN "track_replaced" ELSE "track",
                                   c, e.track)
       ELSE /\ playOk
            /\ lastEvent' = Ev("track_ignored", c, "null")
            /\ UNCHANGED <<sinks, audioRef>>
    /\ UNCHANGED <<react, callRef, attempts, calls, disconnects, mounted,
                   provisioned>>

\* callObject.on('track-started'); playOk: audio.play() was not rejected.
OnTrackStarted(c, e, playOk) ==
    /\ c \in 1..Len(calls)
    /\ calls[c].meeting = "joined"
    /\ IF e.kind = "audio" /\ e.hasParticipant /\ ~e.local
       THEN LET stopped == IF audioRef # 0 THEN StopSink(sinks, audioRef) ELSE sinks
                 free == FreeSlots(stopped)
            IN /\ free # {}
               /\ sinks' = [stopped EXCEPT ![Min(free)] =
                                [srcObject |-> e.track, paused |-> ~playOk]]
               /\ audioRef' = Min(free)
               /\ lastEvent' = Ev(IF audioRef # 0 THEN "track_replaced" ELSE "track",
                                   c, e.track)
       ELSE /\ playOk
            /\ lastEvent' = Ev("track_ignored", c, "null")
            /\ UNCHANGED <<sinks, audioRef>>
    /\ UNCHANGED <<react, callRef, attempts, calls, disconnects, mounted, provisioned>>

\* The status lookup without the 'stt' case.
StatusToAgentState_noStt(status) ==
    CASE status = "listening" -> "listening"
      [] status = "llm" -> "thinking"
      [] status = "tts" -> "speaking"
      [] OTHER -> "idle"

\* The status lookup of the 'app-message' handler.
StatusToAgentState(status) ==
    CASE status \in {"listening", "stt"} -> "listening"
      [] status = "llm" -> "thinking"
      [] status = "tts" -> "speaking"
      [] OTHER -> "idle"

\* The branch of the 'app-message' handler that message m takes (history).
Decoded(m) ==
    IF m.hasData /\ (m.type = "status" \/ (m.type = "transcript" /\ Truthy(m.text)))
    THEN "message"
    ELSE "message_ignored"

\* The 'app-message' handler keeping the previous role when the message
\* has none.
OnAppMessage_keepRole(c, m) ==
    /\ c \in 1..Len(calls)
    /\ calls[c].meeting = "joined"
    /\ agentState' =
          IF m.hasData /\ m.type = "status"
          THEN Set(agentState, StatusToAgentState(m.status))
          ELSE agentState
    /\ IF m.hasData /\ m.type = "transcript" /\ Truthy(m.text)
       THEN /\ transcript' = Set(transcript, m.text)
            /\ transcriptRole' =
                  Set(transcriptRole, IF Truthy(m.role) THEN m.role ELSE transcriptRole)
       ELSE UNCHANGED <<transcript, transcriptRole>>
    /\ lastEvent' = Ev(Decoded(m), c, "null")
    /\ UNCHANGED <<connectionState, isMuted, selectedCharacter, callRef,
                   audioRef, attempts, calls, sinks, disconnects, mounted, provisioned>>

\* The 'app-message' handler running the status lookup on every message
\* with data, whatever its type.
OnAppMessage_anyType(c, m) ==
    /\ c \in 1..Len(calls)
    /\ calls[c].meeting = "joined"
    /\ agentState' =
          IF m.hasData /\ m.type # "transcript"
          THEN Set(agentState, StatusToAgentState(m.status))
          ELSE agentState
    /\ IF m.hasData /\ m.type = "transcript" /\ Truthy(m.text)
       THEN /\ transcript' = Set(transcript, m.text)
            /\ transcriptRole' =
                  Set(transcriptRole, IF Truthy(m.role) THEN m.role ELSE "assistant")
       ELSE UNCHANGED <<transcript, transcriptRole>>
    /\ lastEvent' = Ev(Decoded(m), c, "null")
    /\ UNCHANGED <<connectionState, isMuted, selectedCharacter, callRef,
                   audioRef, attempts, calls, sinks, disconnects, mounted, provisioned>>

\* callObject.on('app-message')
OnAppMessage(c, m) ==
    /\ c \in 1..Len(calls)
    /\ calls[c].meeting = "joined"
    /\ agentState' =
          IF m.hasData /\ m.type = "status"
          THEN Set(agentState, StatusToAgentState(m.status))
          ELSE agentState
    /\ IF m.hasData /\ m.type = "transcript" /\ Truthy(m.text)
       THEN /\ transcript' = Set(transcript, m.text)
            /\ transcriptRole' =
                  Set(transcriptRole, IF Truthy(m.role) THEN m.role ELSE "assistant")
       ELSE UNCHANGED <<transcript, transcriptRole>>
    /\ lastEvent' = Ev(Decoded(m), c, "null")
    /\ UNCHANGED <<connectionState, isMuted, selectedCharacter, callRef,
                   audioRef, attempts, calls, sinks, disconnects, mounted, provisioned>>

\* -------------------------------------------------------------- disconnect
\* History: the user asked to stop while these attempts awaited provisioning.
StopRequested(as) ==
    [a \in 1..Len(as) |->
        IF as[a].pc = "fetch" THEN [as[a] EXCEPT !.stopRequested = TRUE] ELSE as[a]]

\* disconnect(), up to its first await. The button that calls it is rendered
\* while connecting or connected.
disconnect ==
    /\ mounted
    /\ connectionState \in {"connecting", "connected"}
    /\ sinks' = IF audioRef # 0 THEN StopSink(sinks, audioRef) ELSE sinks
    /\ audioRef' = 0
    /\ IF callRef # 0
       THEN /\ Len(disconnects) < MaxDisconnects
            /\ disconnects' = Append(disconnects, [pc |-> "leave", call |-> callRef])
            /\ lastEvent' = Ev("disconnect", callRef, "null")
            /\ UNCHANGED <<react, callRef, calls>>
       ELSE /\ connectionState' = "idle"
            /\ agentState' = "idle"
            /\ transcript' = ""
            /\ transcriptRole' = ""
            /\ lastEvent' = Ev("disconnect_done", 0, "null")
            /\ UNCHANGED <<isMuted, selectedCharacter, callRef, calls, disconnects>>
    /\ attempts' = StopRequested(attempts)
    /\ UNCHANGED <<mounted, provisioned>>

\* disconnect(), resumed after leave(): callRef.current.destroy(). Reading
\* destroy of a null callRef.current throws and ends the invocation.
disconnectAfterLeave(d) ==
    /\ d \in 1..Len(disconnects)
    /\ disconnects[d].pc = "leave"
    /\ LeaveResolved(disconnects[d].call)
    /\ IF callRef # 0
       THEN /\ calls' = CallDestroy(calls, callRef)
            /\ disconnects' = [disconnects EXCEPT ![d] = [pc |-> "destroy", call |-> callRef]]
            /\ lastEvent' = Ev("disconnect_destroy", callRef, "null")
       ELSE /\ disconnects' = RemoveAt(disconnects, d)
            /\ lastEvent' = Ev("disconnect_threw", 0, "null")
            /\ UNCHANGED calls
    /\ UNCHANGED <<react, callRef, audioRef, attempts, sinks, mounted, provisioned>>

\* disconnect(), resumed after destroy(): callRef.current = null and the
\* four state resets.
disconnectAfterDestroy(d) ==
    /\ d \in 1..Len(disconnects)
    /\ disconnects[d].pc = "destroy"
    /\ Destroyed(disconnects[d].call)
    /\ callRef' = 0
    /\ connectionState' = Set(connectionState, "idle")
    /\ agentState' = Set(agentState, "idle")
    /\ transcript' = Set(transcript, "")
    /\ transcriptRole' = Set(transcriptRole, "")
    /\ disconnects' = RemoveAt(disconnects, d)
    /\ lastEvent' = Ev("disconnect_done", disconnects[d].call, "null")
    /\ UNCHANGED <<isMuted, selectedCharacter, audioRef, attempts, calls, sinks,
                   mounted, provisioned>>

\* ------------------------------------------------------------- toggleMute
\* The transport changes the local-audio-enabled flag of call object c on
\* its own (a device or permission change): what localAudio() returns from
\* then on. The component listens to no event about it.
TransportSetsLocalAudio(c, enabled) ==
    /\ c \in 1..Len(calls)
    /\ InMeeting(c)
    /\ calls[c].localAudio # enabled
    /\ calls' = [calls EXCEPT ![c].localAudio = enabled]
    /\ lastEvent' = Ev("local_audio", c, "null")
    /\ UNCHANGED <<react, callRef, audioRef, attempts, sinks, disconnects,
                   mounted, provisioned>>

\* toggleMute() that flips the cached isMuted instead of reading the flag.
toggleMute_localToggle ==
    /\ mounted
    /\ connectionState = "connected"
    /\ IF callRef # 0
       THEN /\ calls' = [calls EXCEPT ![callRef].localAudio = isMuted]
            /\ isMuted' = ~isMuted
       ELSE UNCHANGED <<calls, isMuted>>
    /\ lastEvent' = Ev("toggleMute", callRef, "null")
    /\ UNCHANGED <<connectionState, agentState, transcript, transcriptRole,
                   selectedCharacter, callRef, audioRef, attempts, sinks,
                   disconnects, mounted, provisioned>>

\* The button that calls it is rendered while connected.
toggleMute ==
    /\ mounted
    /\ connectionState = "connected"
    /\ IF callRef # 0
       THEN LET currentMuteState == (calls[callRef].localAudio = FALSE)
            IN /\ calls' = [calls EXCEPT ![callRef].localAudio = currentMuteState]
               /\ isMuted' = ~currentMuteState
       ELSE UNCHANGED <<calls, isMuted>>
    /\ lastEvent' = Ev("toggleMute", callRef, "null")
    /\ UNCHANGED <<connectionState, agentState, transcript, transcriptRole,
                   selectedCharacter, callRef, audioRef, attempts, sinks,
                   disconnects, mounted, provisioned>>

\* ------------------------------------------------------- character button
selectCharacter(id) ==
    /\ mounted
    /\ id \in CHARACTERS
    /\ LET isDisabled == connectionState = "connecting" \/ connectionState = "connected"
       IN selectedCharacter' = IF ~isDisabled THEN id ELSE selectedCharacter
    /\ lastEvent' = Ev("select", 0, "null")
    /\ UNCHANGED <<connectionState, agentState, isMuted, transcript,
                   transcriptRole, callRef, audioRef, attempts, calls, sinks,
                   disconnects, mounted, provisioned>>

\* ------------------------------------------------------ useEffect cleanup
cleanup ==
    /\ mounted
    /\ mounted' = FALSE
    /\ sinks' = IF audioRef # 0 THEN StopSink(sinks, audioRef) ELSE sinks
    /\ calls' = IF callRef # 0 THEN CallDestroy(calls, callRef) ELSE calls
    /\ lastEvent' = Ev("cleanup", callRef, "null")
    /\ UNCHANGED <<react, callRef, audioRef, provisioned, attempts, disconnects>>

\* ------------------------------------------------------------------ types
TypeOK ==
    /\ connectionState \in ConnectionStates
    /\ agentState \in AgentStates
    /\ isMuted \in BOOLEAN
    /\ transcript \in {"", "hello", "bye"}
    /\ transcriptRole \in {"", "user", "assistant"}
    /\ selectedCharacter \in CHARACTERS
    /\ callRef \in 0..Len(calls)
    /\ audioRef \in 0..MaxSinks
    /\ provisioned \in 0..MaxAttempts
    /\ Len(calls) <= provisioned
    /\ \A a \in 1..Len(attempts) :
          /\ attempts[a].pc \in {"fetch", "join", "joinRejected"}
          /\ attempts[a].character \in CHARACTERS
          /\ attempts[a].call \in 0..Len(calls)
          /\ (attempts[a].pc = "fetch") <=> (attempts[a].call = 0)
    /\ \A c \in 1..Len(calls) :
          /\ calls[c].meeting \in {"joining", "joined", "ended"}
          /\ calls[c].destroyReq \in BOOLEAN
          /\ calls[c].localAudio \in BOOLEAN
          /\ calls[c].stopRequested \in BOOLEAN
          /\ calls[c].character \in CHARACTERS
    /\ \A s \in 1..MaxSinks :
          /\ sinks[s].srcObject \in Tracks \cup {"null"}
          /\ sinks[s].paused \in BOOLEAN
    /\ Len(disconnects) <= MaxDisconnects
    /\ \A d \in 1..Len(disconnects) :
          /\ disconnects[d].pc \in {"leave", "destroy"}
          /\ disconnects[d].call \in 1..Len(calls)
    /\ mounted \in BOOLEAN

\* ---------------------------------------------------------- specification
\* The session lifecycle: user connect / disconnect intents, the suspended
\* continuations, and the transport's events, on a mounted component.
Next ==
    \/ connect
    \/ \E a \in 1..MaxAttempts, ok \in BOOLEAN : connectAfterFetch(a, ok)
    \/ \E a \in 1..MaxAttempts : connectCatchJoin(a)
    \/ \E c \in 1..MaxAttempts : OnJoinedMeeting(c)
    \/ \E c \in 1..MaxAttempts : OnLeftMeeting(c)
    \/ \E c \in 1..MaxAttempts : OnError(c)
    \/ \E c \in 1..MaxAttempts, e \in LifecycleTracks : OnTrackStarted(c, e, TRUE)
    \/ \E c \in 1..MaxAttempts, m \in LifecycleMessages : OnAppMessage(c, m)
    \/ disconnect
    \/ \E d \in 1..MaxDisconnects : disconnectAfterLeave(d)
    \/ \E d \in 1..MaxDisconnects : disconnectAfterDestroy(d)

Spec == Init /\ [][Next]_vars

\* The audio output: the lifecycle without application messages, with every
\* kind of track event and with playback that may be refused.
NextAudio ==
    \/ (provisioned < MaxAudioAttempts \/ connectionState \in {"connecting", "connected"})
          /\ connect
    \/ \E a \in 1..MaxAttempts, ok \in BOOLEAN : connectAfterFetch(a, ok)
    \/ \E a \in 1..MaxAttempts : connectCatchJoin(a)
    \/ \E c \in 1..MaxAttempts : OnJoinedMeeting(c)
    \/ \E c \in 1..MaxAttempts : OnLeftMeeting(c)
    \/ \E c \in 1..MaxAttempts : OnError(c)
    \/ \E c \in 1..MaxAttempts, e \in AudioTracks, playOk \in BOOLEAN :
          OnTrackStarted(c, e, playOk)
    \/ disconnect
    \/ \E d \in 1..MaxDisconnects : disconnectAfterLeave(d)
    \/ \E d \in 1..MaxDisconnects : disconnectAfterDestroy(d)

SpecAudio == Init /\ [][NextAudio]_vars

\* The component's teardown: the lifecycle without application messages, and
\* the useEffect cleanup, after which the suspended continuations and the
\* transport's events still run.
NextTeardown ==
    \/ (provisioned < MaxTeardownAttempts \/ connectionState \in {"connecting", "connected"})
          /\ connect
    \/ \E a \in 1..MaxAttempts, ok \in BOOLEAN : connectAfterFetch(a, ok)
    \/ \E a \in 1..MaxAttempts : connectCatchJoin(a)
    \/ \E c \in 1..MaxAttempts : OnJoinedMeeting(c)
    \/ \E c \in 1..MaxAttempts : OnLeftMeeting(c)
    \/ \E c \in 1..MaxAttempts : OnError(c)
    \/ \E c \in 1..MaxAttempts, e \in LifecycleTracks : OnTrackStarted(c, e, TRUE)
    \/ disconnect
    \/ \E d \in 1..MaxDisconnects : disconnectAfterLeave(d)
    \/ \E d \in 1..MaxDisconnects : disconnectAfterDestroy(d)
    \/ cleanup

SpecTeardown == Init /\ [][NextTeardown]_vars

\* The mute control: the lifecycle without failures, application messages
\* and tracks, the mute button, and the transport changing the flag on its
\* own.
NextMute ==
    \/ (provisioned < MaxMuteAttempts \/ connectionState \in {"connecting", "connected"})
          /\ connect
    \/ \E a \in 1..MaxAttempts : connectAfterFetch(a, TRUE)
    \/ \E c \in 1..MaxAttempts : OnJoinedMeeting(c)
    \/ \E c \in 1..MaxAttempts : OnLeftMeeting(c)
    \/ disconnect
    \/ \E d \in 1..MaxDisconnects : disconnectAfterLeave(d)
    \/ \E d \in 1..MaxDisconnects : disconnectAfterDestroy(d)
    \/ toggleMute
    \/ \E c \in 1..MaxAttempts, enabled \in BOOLEAN : TransportSetsLocalAudio(c, enabled)

SpecMute == Init /\ [][NextMute]_vars

\* The mute control over successive sessions, with a transport that changes
\* the flag only when setLocalAudio() tells it to.
NextMuteSessions ==
    \/ (provisioned < MaxMuteAttempts \/ connectionState \in {"connecting", "connected"})
          /\ connect
    \/ \E a \in 1..MaxAttempts : connectAfterFetch(a, TRUE)
    \/ \E c \in 1..MaxAttempts : OnJoinedMeeting(c)
    \/ \E c \in 1..MaxAttempts : OnLeftMeeting(c)
    \/ disconnect
    \/ \E d \in 1..MaxDisconnects : disconnectAfterLeave(d)
    \/ \E d \in 1..MaxDisconnects : disconnectAfterDestroy(d)
    \/ toggleMute

SpecMuteSessions == Init /\ [][NextMuteSessions]_vars

\* The message decoder: the lifecycle without failures and tracks, and
\* every kind of application message.
NextDecoder ==
    \/ (provisioned < MaxDecoderAttempts \/ connectionState \in {"connecting", "connected"})
          /\ connect
    \/ \E a \in 1..MaxAttempts : connectAfterFetch(a, TRUE)
    \/ \E c \in 1..MaxAttempts : OnJoinedMeeting(c)
    \/ \E c \in 1..MaxAttempts : OnLeftMeeting(c)
    \/ \E c \in 1..MaxAttempts, m \in DecoderMessages : OnAppMessage(c, m)
    \/ disconnect
    \/ \E d \in 1..MaxDisconnects : disconnectAfterLeave(d)
    \/ \E d \in 1..MaxDisconnects : disconnectAfterDestroy(d)

SpecDecoder == Init /\ [][NextDecoder]_vars

\* The character selection: the lifecycle without application messages and
\* tracks, and the character buttons.
NextSelect ==
    \/ (provisioned < MaxSelectAttempts \/ connectionState \in {"connecting", "connected"})
          /\ connect
    \/ \E a \in 1..MaxAttempts, ok \in BOOLEAN : connectAfterFetch(a, ok)
    \/ \E a \in 1..MaxAttempts : connectCatchJoin(a)
    \/ \E c \in 1..MaxAttempts : OnJoinedMeeting(c)
    \/ \E c \in 1..MaxAttempts : OnLeftMeeting(c)
    \/ \E c \in 1..MaxAttempts : OnError(c)
    \/ disconnect
    \/ \E d \in 1..MaxDisconnects : disconnectAfterLeave(d)
    \/ \E d \in 1..MaxDisconnects : disconnectAfterDestroy(d)
    \/ \E id \in CHARACTERS : selectCharacter(id)

SpecSelect == Init /\ [][NextSelect]_vars

\* Progress: the lifecycle without application messages and tracks, where
\* every pending promise settles (the provisioning call, join(), leave(),
\* destroy()) and the transport answers every join() with 'joined-meeting',
\* 'left-meeting' or 'error'.
NextLive ==
    \/ (provisioned < MaxLiveAttempts \/ connectionState \in {"connecting", "connected"})
          /\ connect
    \/ \E a \in 1..MaxAttempts, ok \in BOOLEAN : connectAfterFetch(a, ok)
    \/ \E a \in 1..MaxAttempts : connectCatchJoin(a)
    \/ \E c \in 1..MaxAttempts : OnJoinedMeeting(c)
    \/ \E c \in 1..MaxAttempts : OnLeftMeeting(c)
    \/ \E c \in 1..MaxAttempts : OnError(c)
    \/ disconnect
    \/ \E d \in 1..MaxDisconnects : disconnectAfterLeave(d)
    \/ \E d \in 1..MaxDisconnects : disconnectAfterDestroy(d)

\* The transport's answer to the join() of call object c
JoinAnswered(c) ==
    /\ c \in 1..Len(calls)
    /\ calls[c].meeting = "joining"
    /\ OnJoinedMeeting(c) \/ OnLeftMeeting(c) \/ OnError(c)

FairLive ==
    /\ WF_vars(\E a \in 1..MaxAttempts, ok \in BOOLEAN : connectAfterFetch(a, ok))
    /\ WF_vars(\E a \in 1..MaxAttempts : connectCatchJoin(a))
    /\ \A c \in 1..MaxAttempts : WF_vars(JoinAnswered(c))
    /\ WF_vars(\E d \in 1..MaxDisconnects : disconnectAfterLeave(d))
    /\ WF_vars(\E d \in 1..MaxDisconnects : disconnectAfterDestroy(d))

SpecLive == Init /\ [][NextLive]_vars /\ FairLive

\* ------------------------------------------------------------ properties
Connecting == connectionState = "connecting"
Connected == connectionState = "connected"

AliveSinks == { s \in 1..MaxSinks : Alive(s) }

\* C1: a connect() issued while ConnectionState is connecting or connected is
\* ignored: it issues no provisioning call, creates no call object, and
\* leaves ConnectionState, AgentState, the transcript and everything else as
\* they were.
C1_ConnectIdempotent ==
    [][ /\ (Connecting \/ Connected) =>
              /\ provisioned' = provisioned
              /\ lastEvent'.op # "connect"
        /\ lastEvent'.op = "connect_ignored" =>
              /\ Connecting \/ Connected
              /\ UNCHANGED <<react, callRef, audioRef, provisioned, attempts,
                             calls, sinks, disconnects>>
      ]_vars

\* C1 witness: a connect() was ignored while connected, with a transcript on
\* display.
C1_Witness ==
    /\ lastEvent.op = "connect_ignored"
    /\ Connected
    /\ transcript = "hello"

\* C2: a call object made by an attempt the user asked to stop while it was
\* awaiting provisioning is never live (joined) without a teardown of it
\* under way: the session is not left connected.
C2_StopDuringProvisioningHonoured ==
    \A c \in 1..Len(calls) :
        (calls[c].stopRequested /\ calls[c].meeting = "joined") =>
            \/ calls[c].destroyReq
            \/ \E d \in 1..Len(disconnects) : disconnects[d].call = c

\* C3: AgentState differs from idle only while ConnectionState is connected.
C3_AgentStateCoupling == agentState # "idle" => Connected

\* C4: the session reference holds a call object exactly while
\* ConnectionState is connecting or connected.
C4_SessionIffActive == (callRef # 0) <=> (Connecting \/ Connected)

\* C5: at most one audio sink is alive at any time, the alive one is the one
\* audioRef.current refers to, and after a remote audio track-started event
\* exactly one sink is alive, bound to the track of that event; every other
\* sink is paused and detached.
C5_SingleSink ==
    /\ Cardinality(AliveSinks) <= 1
    /\ AliveSinks \subseteq {audioRef}
    /\ lastEvent.op \in {"track", "track_replaced"} =>
          /\ AliveSinks = {audioRef}
          /\ sinks[audioRef].srcObject = lastEvent.track
          /\ \A s \in 1..MaxSinks : s # audioRef => sinks[s] = DeadSink

\* C5 witness: a second remote audio track replaced a first one.
C5_Witness ==
    /\ lastEvent.op = "track_replaced"
    /\ lastEvent.track = "trackB"
    /\ audioRef # 0
    /\ sinks[audioRef].srcObject = "trackB"

\* C6: whenever ConnectionState enters connected, the transcript is empty:
\* no text of an earlier connected period is still there.
C6_TranscriptResetBeforeConnected ==
    [][ (~Connected /\ Connected') => transcript = "" ]_vars

\* C7: right after the 'joined' event is handled, ConnectionState is
\* connected, AgentState is idle and the transcript is empty.
C7_JoinedResets ==
    lastEvent.op = "joined" =>
        /\ Connected
        /\ agentState = "idle"
        /\ transcript = ""

\* C8: right after a 'left' event that no user disconnect is waiting for,
\* ConnectionState is idle, the call object is destroyed and the session
\* reference cleared, the audio sink is released, and AgentState and the
\* transcript are reset.
C8_LeftTearsDown ==
    (lastEvent.op = "left" /\ disconnects = <<>>) =>
        /\ connectionState = "idle"
        /\ Destroyed(lastEvent.call)
        /\ callRef = 0
        /\ audioRef = 0
        /\ AliveSinks = {}
        /\ agentState = "idle"
        /\ transcript = ""

\* C9: right after a transport 'error' event, ConnectionState is error and
\* neither an audio sink nor a session reference remains.
C9_ErrorTearsDown ==
    lastEvent.op = "error" =>
        /\ connectionState = "error"
        /\ audioRef = 0
        /\ AliveSinks = {}
        /\ callRef = 0

\* C10: a failed provisioning call ends its attempt with ConnectionState
\* error and without a call object (none created, the session reference
\* untouched); a connect() issued in state error is accepted like any other:
\* it moves to connecting and issues one provisioning call.
C10_ProvisioningFailure ==
    [][ /\ lastEvent'.op = "fetch_failed" =>
              /\ connectionState' = "error"
              /\ calls' = calls
              /\ callRef' = callRef
              /\ Len(attempts') = Len(attempts) - 1
        /\ (connectionState = "error"
              /\ lastEvent'.op \in {"connect", "connect_ignored"}) =>
              /\ lastEvent'.op = "connect"
              /\ connectionState' = "connecting"
              /\ provisioned' = provisioned + 1
              /\ Len(attempts') = Len(attempts) + 1
      ]_vars

\* C10 witness: the first attempt failed at provisioning, leaving no call
\* object, and a retry has been accepted.
C10_Witness ==
    /\ lastEvent.op = "connect"
    /\ provisioned = 2
    /\ Len(attempts) = 1
    /\ calls = <<>>
    /\ callRef = 0
    /\ Connecting

\* C11: the component's teardown stops the audio sink and leaves and
\* destroys the session it finds, and no call object is left or destroyed
\* twice: the teardown does not call leave() on a call object that a
\* suspended disconnect() already left, and destroy() is never called on a
\* call object on which it was called before.
C11_TeardownOnce ==
    [][ /\ lastEvent'.op = "cleanup" =>
              /\ AliveSinks' = {}
              /\ callRef # 0 =>
                    /\ calls'[callRef].destroyReq
                    /\ \A d \in 1..Len(disconnects) : disconnects[d].call # callRef
        /\ (lastEvent'.op \in {"cleanup", "disconnect_destroy"} /\ lastEvent'.call # 0) =>
              ~calls[lastEvent'.call].destroyReq
      ]_vars

\* C12: right after a user disconnect() completes, ConnectionState and
\* AgentState are idle, the transcript and its role are empty, the session
\* reference is cleared, the call object it tore down is out of the meeting
\* and destroyed, and no audio sink is alive.
C12_DisconnectCompletes ==
    lastEvent.op = "disconnect_done" =>
        /\ connectionState = "idle"
        /\ agentState = "idle"
        /\ transcript = ""
        /\ transcriptRole = ""
        /\ callRef = 0
        /\ lastEvent.call # 0 => Destroyed(lastEvent.call)
        /\ audioRef = 0
        /\ AliveSinks = {}

\* C13: toggleMute() with a call object in the session reference (one on
\* which destroy() was not called) sets the transport's local-audio-enabled
\* flag to the negation of what it was and leaves isMuted true exactly when
\* the flag is now disabled, whatever isMuted was before; no other call
\* object is touched. With no session reference it changes neither a flag
\* nor isMuted.
C13_MuteReadBeforeWrite ==
    [][ lastEvent'.op = "toggleMute" =>
          /\ (callRef # 0 /\ ~calls[callRef].destroyReq) =>
                /\ calls'[callRef].localAudio = ~calls[callRef].localAudio
                /\ isMuted' = ~calls'[callRef].localAudio
                /\ \A c \in 1..Len(calls) : c # callRef => calls'[c] = calls[c]
          /\ callRef = 0 =>
                /\ calls' = calls
                /\ isMuted' = isMuted
      ]_vars

\* C13 witness: toggleMute() has just muted the session in the reference.
C13_Witness ==
    /\ lastEvent.op = "toggleMute"
    /\ callRef # 0
    /\ lastEvent.call = callRef
    /\ calls[callRef].meeting = "joined"
    /\ ~calls[callRef].destroyReq
    /\ isMuted
    /\ ~calls[callRef].localAudio

\* C14: handling a message of type 'status' leaves AgentState at the lookup
\* of its status field ('listening' and 'stt' give listening, 'llm' gives
\* thinking, 'tts' gives speaking, anything else or nothing gives idle) and
\* changes neither ConnectionState nor the transcript and its role.
C14_StatusLookup ==
    [][ \A c \in 1..Len(calls), m \in DecoderMessages :
          (m.hasData /\ m.type = "status" /\ OnAppMessage(c, m)) =>
              /\ agentState' =
                    CASE m.status = "listening" -> "listening"
                      [] m.status = "stt" -> "listening"
                      [] m.status = "llm" -> "thinking"
                      [] m.status = "tts" -> "speaking"
                      [] OTHER -> "idle"
              /\ UNCHANGED <<connectionState, transcript, transcriptRole>>
      ]_vars

\* C14 witness: a status message was handled while a transcript was on
\* display, and AgentState is listening.
C14_Witness ==
    /\ lastEvent.op = "message"
    /\ Connected
    /\ agentState = "listening"
    /\ transcript = "hello"

\* C15: handling a message of type 'transcript' with a non-empty text
\* replaces the transcript by that text and the role by the message's role,
\* 'assistant' when it has none; with an empty or missing text the
\* transcript and the role stay as they were.
C15_TranscriptReplace ==
    [][ \A c \in 1..Len(calls), m \in DecoderMessages :
          (m.hasData /\ m.type = "transcript" /\ OnAppMessage(c, m)) =>
              IF m.text # undefined /\ m.text # ""
              THEN /\ transcript' = m.text
                   /\ transcriptRole' = IF m.role = undefined THEN "assistant" ELSE m.role
                   /\ lastEvent'.op = "message"
              ELSE /\ UNCHANGED <<transcript, transcriptRole>>
                   /\ lastEvent'.op = "message_ignored"
      ]_vars

\* C15 witness: a transcript message has replaced the text on display.
C15_Witness ==
    /\ lastEvent.op = "message"
    /\ Connected
    /\ transcript = "bye"
    /\ transcriptRole = "assistant"
    /\ agentState = "idle"

\* C16: a message without data, or whose type is neither 'status' nor
\* 'transcript', produces no event and leaves ConnectionState, AgentState,
\* the transcript and the role unchanged; and the handler accepts every
\* message a joined call object delivers.
C16_UnknownIgnored ==
    /\ [](\A c \in 1..Len(calls), m \in DecoderMessages :
              calls[c].meeting = "joined" => ENABLED OnAppMessage(c, m))
    /\ [][ \A c \in 1..Len(calls), m \in DecoderMessages :
              ((~m.hasData \/ m.type \notin {"status", "transcript"})
                  /\ OnAppMessage(c, m)) =>
                  /\ lastEvent'.op = "message_ignored"
                  /\ UNCHANGED <<connectionState, agentState, transcript,
                                 transcriptRole, isMuted, callRef, audioRef,
                                 calls, sinks>>
          ]_vars

\* C16 witness: a message was ignored while the agent was speaking and a
\* transcript was on display, and both are still there.
C16_Witness ==
    /\ lastEvent.op = "message_ignored"
    /\ Connected
    /\ agentState = "speaking"
    /\ transcript = "hello"
    /\ transcriptRole = "user"

\* C17: the selection changes only while ConnectionState is idle or error,
\* a character button pressed while connecting or connected changes
\* nothing, and so, while ConnectionState is connecting or connected, the
\* character id that every attempt in flight sent to provisioning, and that
\* every call object in the meeting was provisioned for, is the selection.
C17_SelectionLocked ==
    /\ [][ /\ selectedCharacter' # selectedCharacter =>
                  connectionState \in {"idle", "error"}
           /\ (lastEvent'.op = "select" /\ (Connecting \/ Connected)) =>
                  selectedCharacter' = selectedCharacter
         ]_vars
    /\ []((Connecting \/ Connected) =>
            /\ \A a \in 1..Len(attempts) : attempts[a].character = selectedCharacter
            /\ \A c \in 1..Len(calls) :
                   InMeeting(c) => calls[c].character = selectedCharacter)

\* C18: at most one call object that was created and not destroyed exists
\* at any time, and the session reference is never moved off a call object
\* that was not destroyed.
C18_SingleCallObject ==
    /\ [](Cardinality({ c \in 1..Len(calls) : ~Destroyed(c) }) <= 1)
    /\ [][ (callRef # 0 /\ callRef' # callRef) => Destroyed(callRef) ]_vars

\* C19: a transport event of a call object other than the one in the
\* session reference changes neither ConnectionState, AgentState, the
\* transcript and its role, nor the audio sink.
C19_StaleEventsIgnored ==
    [][ (/\ lastEvent'.op \in {"joined", "left", "error", "track", "track_replaced",
                                "track_ignored", "message", "message_ignored"}
         /\ lastEvent'.call # callRef) =>
            UNCHANGED <<connectionState, agentState, transcript, transcriptRole,
                        audioRef, sinks>>
      ]_vars

\* C20: a disconnect() resuming after leave() destroys the call object it
\* was invoked on and no other, and when it completes it clears the session
\* reference only of that call object and does not change ConnectionState
\* while the attempt of another call object is in flight or another call
\* object is in the meeting.
C20_DisconnectOwnSession ==
    [][ /\ lastEvent'.op = "disconnect_destroy" =>
              \E d \in 1..Len(disconnects) :
                  /\ disconnects[d].pc = "leave"
                  /\ disconnects[d].call = lastEvent'.call
        /\ (lastEvent'.op = "disconnect_done" /\ lastEvent'.call # 0) =>
              /\ callRef \in {0, lastEvent'.call}
              /\ (\/ \E a \in 1..Len(attempts) : attempts[a].call # lastEvent'.call
                  \/ \E c \in 1..Len(calls) : c # lastEvent'.call /\ InMeeting(c)) =>
                    connectionState' = connectionState
      ]_vars

\* C21: whenever ConnectionState is connected and the call object in the
\* session reference is in its meeting, isMuted is true exactly when that
\* call object's local audio is disabled.
C21_MutedMirrorsTransport ==
    (/\ Connected
     /\ callRef # 0
     /\ calls[callRef].meeting = "joined"
     /\ ~calls[callRef].destroyReq) =>
        (isMuted <=> ~calls[callRef].localAudio)

\* C22: ConnectionState does not stay connecting forever: from every state
\* in which it is connecting, a state follows in which it is connected,
\* error or idle.
C22_LeavesConnecting == Connecting ~> ~Connecting

\* C22 witness: an attempt during which the user asked to stop has left
\* connecting all the same, by its call object joining.
C22_Witness ==
    /\ lastEvent.op = "joined"
    /\ Connected
    /\ calls[lastEvent.call].stopRequested

====
